---- MODULE Spec2Model ----
(***************************************************************************)
(* Receptive-field mocks (src/mocks.py): MockLayer / MockConv / MockPool   *)
(* descriptors and the MockModel container, modelled over an explicit heap *)
(* of Python list objects so that sharing of a list between a caller and   *)
(* one or more MockModel objects is visible.                               *)
(***************************************************************************)
EXTENDS Integers, Sequences, FiniteSets, TLC

VARIABLES
    layer,   \* heap of MockLayer objects: object id -> attribute record
    lists,   \* heap of Python list objects: list id -> sequence of references
    model,   \* heap of MockModel objects: object id -> [layers |-> list id]
    held,    \* ids of the list objects the caller wrote itself and still holds
    ret,     \* the call that produced this state, with its return value
    out,     \* the lines that call wrote to standard output
    script   \* the caller's scenario: what it set out to build and how far it is

vars == <<layer, lists, model, held, ret, out, script>>

(***************************************************************************)
(* Bounds of the model.                                                    *)
(***************************************************************************)
MaxLayers == 1      \* MockLayer objects constructed (heap specification)
MaxLists == 2       \* list objects allocated (heap specification)
MaxModels == 2      \* MockModel objects constructed (heap specification)
MaxLen == 2         \* list elements on the heap, all lists together (heap specification)
MaxDepth == 3       \* layers of a drawn stack (positive parameters)
MaxAnyDepth == 2    \* layers of a drawn stack (parameters of any sign)
MaxObjs == 1        \* descriptors constructed (constructor specification)
MaxSeq == 3         \* layers of the sequence that is partitioned

NameWidth == 20     \* layer.name.ljust(20)

(***************************************************************************)
(* Values.                                                                 *)
(***************************************************************************)
\* An omitted optional argument (None / the signature's default) is <<>>,
\* a given one is <<v>>.
Omitted == <<>>
Given(v) == <<v>>

\* Names are strings, modelled as sequences of characters.
Names == {<<>>, <<"a">>}

\* References stored in list objects.
LayerRef(i) == [kind |-> "layer", id |-> i]
ModelRef(m) == [kind |-> "model", id |-> m]

\* A completed call: the operation, the object it was called on, its arguments,
\* how it ended ("ok" or the exception raised) and what it returned.
Call(op, self, arg, status, value) ==
    [op |-> op, self |-> self, arg |-> arg, status |-> status, value |-> value]
NoCall == Call("none", 0, <<>>, "ok", <<>>)

(***************************************************************************)
(* MockLayer and its presets.                                              *)
(***************************************************************************)
MockLayer(kernel_size, stride, dilation_rate, name) ==
    [kernel_size |-> kernel_size, stride |-> stride,
     dilation_rate |-> dilation_rate, name |-> name]

MockConv(kernel_size, stride, dilation_rate, name) ==
    MockLayer(kernel_size,
              IF stride = Omitted THEN 1 ELSE stride[1],
              IF dilation_rate = Omitted THEN 1 ELSE dilation_rate[1],
              name)

\* stride = stride or pool_size: a stride of 0 is taken for an omitted one.
MockPool_falsy(pool_size, stride, name) ==
    MockLayer(pool_size,
              IF stride = Omitted \/ stride = Given(0) THEN pool_size ELSE stride[1],
              1, name)

MockPool(pool_size, stride, name) ==
    LET stride_ == IF stride = Omitted THEN pool_size ELSE stride[1]
    IN  MockLayer(pool_size, stride_, 1, name)

\* MockLayer.get_as_list: a new one-element list holding the layer itself.
LayerGetAsList(self) == <<LayerRef(self)>>

\* kernel_term taken from kernel_size rather than kernel_size - 1.
get_output_receptive_field_kernel(self, input_receptive_field, input_accumulated_stride) ==
    LET kernel_term == self.kernel_size * self.dilation_rate * input_accumulated_stride
    IN  <<kernel_term + input_receptive_field, input_accumulated_stride * self.stride>>

\* kernel_term without the accumulated stride.
get_output_receptive_field_nostride(self, input_receptive_field, input_accumulated_stride) ==
    LET kernel_term == (self.kernel_size - 1) * self.dilation_rate
    IN  <<kernel_term + input_receptive_field, input_accumulated_stride * self.stride>>

get_output_receptive_field(self, input_receptive_field, input_accumulated_stride) ==
    LET kernel_term == (self.kernel_size - 1) * self.dilation_rate * input_accumulated_stride
        output_receptive_field == kernel_term + input_receptive_field
        output_accumulated_stride == input_accumulated_stride * self.stride
    IN  <<output_receptive_field, output_accumulated_stride>>

(***************************************************************************)
(* MockModel.                                                              *)
(***************************************************************************)
\* str.ljust(width): pad on the right with spaces, never truncate.
LJust(s, width) ==
    IF Len(s) >= width THEN s ELSE s \o [i \in 1..(width - Len(s)) |-> " "]

\* MockModel.get_as_list: the model's own list object (a reference, no copy).
ModelGetAsList(self) == model[self].layers

\* The contents of the list a model refers to.
Layers(m) == lists[model[m].layers]

\* new_block.get_as_list(), read at the time of the call.
BlockList(new_block) ==
    IF new_block.kind = "layer"
    THEN LayerGetAsList(new_block.id)
    ELSE lists[ModelGetAsList(new_block.id)]

\* self.layers.append(new_block) in place of extend.
ModelAdd_append(self, new_block) ==
    [lists EXCEPT ![model[self].layers] = Append(@, new_block)]

\* MockModel.add: the heap of lists after self.layers.extend(list_of_layers).
\* list.extend reads its argument before growing, also when it is self.layers.
ModelAdd(self, new_block) ==
    LET list_of_layers == BlockList(new_block)
    IN  [lists EXCEPT ![model[self].layers] = @ \o list_of_layers]

\* Whether every element of ls is a MockLayer (has name, kernel_size, ...).
AllLayers(ls) == \A i \in 1..Len(ls) : ls[i].kind = "layer"

\* [layer.name for layer in self.layers]
get_layer_names(ls) == [i \in 1..Len(ls) |-> layer[ls[i].id].name]

SummaryLine(i, l) ==
    <<"Layer", i, LJust(l.name, NameWidth), "k", l.kernel_size, "s", l.stride,
      "d", l.dilation_rate>>

\* The lines MockModel.summary prints.
summary(ls) ==
    <<"header", "rule">> \o [i \in 1..Len(ls) |-> SummaryLine(i, layer[ls[i].id])]
        \o <<"">>

VerboseLine(i, l, rf) == SummaryLine(i, l) \o <<"Receptive field", rf>>

\* The for loop of get_receptive_field from position i on: the running pair,
\* the list of intermediate fields and the lines printed so far.
RECURSIVE RFLoop(_, _, _, _, _, _, _)
RFLoop(ls, i, output_receptive_field, accumulated_stride, all_receptive_fields, printed, verbose) ==
    IF i > Len(ls)
    THEN [status |-> "ok",
          value |-> <<output_receptive_field, all_receptive_fields>>,
          stride |-> accumulated_stride,
          printed |-> IF verbose THEN Append(printed, "") ELSE printed]
    ELSE IF ls[i].kind # "layer"
    THEN [status |-> "AttributeError", value |-> <<>>, stride |-> accumulated_stride,
          printed |-> printed]
    ELSE LET l == layer[ls[i].id]
             o == get_output_receptive_field(l, output_receptive_field, accumulated_stride)
         IN  RFLoop(ls, i + 1, o[1], o[2], Append(all_receptive_fields, o[1]),
                    IF verbose THEN Append(printed, VerboseLine(i, l, o[1])) ELSE printed,
                    verbose)

\* A fold that starts from receptive field 0.
get_receptive_field_zero(ls, verbose) == RFLoop(ls, 1, 0, 1, <<>>, <<>>, verbose)

\* A get_receptive_field that validates the parameters before folding.
get_receptive_field_checked(ls, verbose) ==
    IF \E i \in 1..Len(ls) :
            layer[ls[i].id].kernel_size < 1 \/ layer[ls[i].id].stride < 1
    THEN [status |-> "ValueError", value |-> <<>>, stride |-> 1, printed |-> <<>>]
    ELSE RFLoop(ls, 1, 1, 1, <<>>, <<>>, verbose)

\* MockModel.get_receptive_field on the list contents ls.
get_receptive_field(ls, verbose) == RFLoop(ls, 1, 1, 1, <<>>, <<>>, verbose)


(***************************************************************************)
(* The caller's operations on the heap. Each sets ret and out; none reads  *)
(* or writes the caller's scenario.                                        *)
(***************************************************************************)
LayerIds == 1..Len(layer)
ListIds == 1..Len(lists)
ModelIds == 1..Len(model)
Blocks == {LayerRef(i) : i \in LayerIds} \cup {ModelRef(m) : m \in ModelIds}

\* The number of elements of the list objects h, all together.
RECURSIVE HeapSize(_)
HeapSize(h) == IF h = <<>> THEN 0 ELSE Len(Head(h)) + HeapSize(Tail(h))

\* A constructor of a descriptor returned the new object obj.
Construct(cls, args, obj) ==
    /\ layer' = Append(layer, obj)
    /\ ret' = Call(cls, Len(layer) + 1, args, "ok", <<>>)
    /\ out' = <<>>
    /\ UNCHANGED <<lists, model, held>>

NewMockLayer(kernel_size, stride, dilation_rate, name) ==
    Construct("MockLayer", <<kernel_size, stride, dilation_rate, name>>,
              MockLayer(kernel_size, stride, dilation_rate, name))

NewMockConv(kernel_size, stride, dilation_rate, name) ==
    Construct("MockConv", <<kernel_size, stride, dilation_rate, name>>,
              MockConv(kernel_size, stride, dilation_rate, name))

NewMockPool(pool_size, stride, name) ==
    Construct("MockPool", <<pool_size, stride, name>>,
              MockPool(pool_size, stride, name))

\* layer l's get_output_receptive_field(rf, acc), called directly.
Propagate(l, rf, acc) ==
    /\ ret' = Call("get_output_receptive_field", l, <<rf, acc>>, "ok",
                   get_output_receptive_field(layer[l], rf, acc))
    /\ out' = <<>>
    /\ UNCHANGED <<layer, lists, model, held>>

\* The caller writes a list of layers, [a, b], to pass as initial_layer_list.
CallerList(ids) ==
    /\ lists' = Append(lists, [i \in 1..Len(ids) |-> LayerRef(ids[i])])
    /\ held' = held \cup {Len(lists) + 1}
    /\ ret' = Call("list", Len(lists) + 1, <<>>, "ok", <<>>)
    /\ out' = <<>>
    /\ UNCHANGED <<layer, model>>

\* MockModel(): self.layers = [], a new list object.
NewMockModelEmpty ==
    /\ lists' = Append(lists, <<>>)
    /\ model' = Append(model, [layers |-> Len(lists) + 1])
    /\ ret' = Call("MockModel", Len(model) + 1, Omitted, "ok", <<>>)
    /\ out' = <<>>
    /\ UNCHANGED <<layer, held>>

\* MockModel(initial_layer_list): self.layers = initial_layer_list, the
\* caller's list object itself. The caller can pass any list it wrote and any
\* list a model's get_as_list() hands out.
NewMockModelFrom(initial_layer_list) ==
    /\ initial_layer_list \in ListIds
    /\ model' = Append(model, [layers |-> initial_layer_list])
    /\ ret' = Call("MockModel", Len(model) + 1, Given(initial_layer_list), "ok", <<>>)
    /\ out' = <<>>
    /\ UNCHANGED <<layer, lists, held>>

\* The caller calls m.get_as_list(): it is handed the model's list object.
CallGetAsList(m) ==
    /\ ret' = Call("get_as_list", m, <<>>, "ok", ModelGetAsList(m))
    /\ out' = <<>>
    /\ UNCHANGED <<layer, lists, model, held>>

\* m.add(new_block)
Add(m, new_block) ==
    /\ lists' = ModelAdd(m, new_block)
    /\ ret' = Call("add", m, new_block, "ok", <<>>)
    /\ out' = <<>>
    /\ UNCHANGED <<layer, model, held>>

\* m.get_layer_names()
GetLayerNames(m) ==
    /\ ret' = IF AllLayers(Layers(m))
              THEN Call("get_layer_names", m, <<>>, "ok", get_layer_names(Layers(m)))
              ELSE Call("get_layer_names", m, <<>>, "AttributeError", <<>>)
    /\ out' = <<>>
    /\ UNCHANGED <<layer, lists, model, held>>

\* m.summary()
Summary(m) ==
    /\ ret' = Call("summary", m, <<>>,
                   IF AllLayers(Layers(m)) THEN "ok" ELSE "AttributeError", <<>>)
    /\ out' = IF AllLayers(Layers(m)) THEN summary(Layers(m)) ELSE <<"header", "rule">>
    /\ UNCHANGED <<layer, lists, model, held>>

\* A get_receptive_field that consumes the list it walks.
GetReceptiveField_consuming(m, verbose) ==
    LET r == get_receptive_field(Layers(m), verbose)
    IN  /\ ret' = Call("get_receptive_field", m, <<verbose>>, r.status, r.value)
        /\ out' = r.printed
        /\ lists' = [lists EXCEPT ![model[m].layers] = <<>>]
        /\ UNCHANGED <<layer, model, held>>

\* m.get_receptive_field(verbose)
GetReceptiveField(m, verbose) ==
    LET r == get_receptive_field(Layers(m), verbose)
    IN  /\ ret' = Call("get_receptive_field", m, <<verbose>>, r.status, r.value)
        /\ out' = r.printed
        /\ UNCHANGED <<layer, lists, model, held>>

(***************************************************************************)
(* Heap specification: the caller constructs descriptors, lists and models *)
(* and calls add and the queries in any order.                             *)
(***************************************************************************)
Free == [mode |-> "free"]

EmptyHeap ==
    /\ layer = <<>>
    /\ lists = <<>>
    /\ model = <<>>
    /\ held = {}
    /\ ret = NoCall
    /\ out = <<>>

Init == EmptyHeap /\ script = Free

HeapNewConv ==
    /\ Len(layer) < MaxLayers
    /\ NewMockConv(3, Given(2), Omitted, <<"c">>)
    /\ UNCHANGED script

HeapNewPool ==
    /\ Len(layer) < MaxLayers
    /\ NewMockPool(2, Omitted, <<>>)
    /\ UNCHANGED script

\* The caller lists layers in the order it constructed them.
HeapCallerList ==
    /\ Len(lists) < MaxLists
    /\ \E n \in 0..(MaxLen - HeapSize(lists)) : \E ids \in [1..n -> LayerIds] :
            /\ \A i \in 1..(n - 1) : ids[i] < ids[i + 1]
            /\ CallerList(ids)
    /\ UNCHANGED script

HeapNewModelEmpty ==
    /\ Len(model) < MaxModels
    /\ Len(lists) < MaxLists
    /\ NewMockModelEmpty
    /\ UNCHANGED script

HeapNewModelFrom ==
    /\ Len(model) < MaxModels
    /\ \E l \in ListIds : NewMockModelFrom(l)
    /\ UNCHANGED script

HeapAdd ==
    /\ \E m \in ModelIds : \E b \in Blocks :
            /\ HeapSize(lists) + Len(BlockList(b)) <= MaxLen
            /\ Add(m, b)
    /\ UNCHANGED script

HeapGetLayerNames == (\E m \in ModelIds : GetLayerNames(m)) /\ UNCHANGED script

HeapGetReceptiveField ==
    /\ \E m \in ModelIds : \E verbose \in BOOLEAN : GetReceptiveField(m, verbose)
    /\ UNCHANGED script

Next ==
    \/ HeapNewConv
    \/ HeapNewPool
    \/ HeapCallerList
    \/ HeapNewModelEmpty
    \/ HeapNewModelFrom
    \/ HeapAdd
    \/ HeapGetLayerNames
    \/ HeapGetReceptiveField

Spec == Init /\ [][Next]_vars

(***************************************************************************)
(* Properties of the heap specification.                                   *)
(***************************************************************************)
\* C3: a group exclusively owns its layers sequence: an add on one group
\* changes neither the layers sequence of any other group nor any list the
\* caller wrote and still holds.
C3_ExclusiveOwnership ==
    [][ret'.op = "add" =>
          /\ \A m \in ModelIds : m # ret'.self => lists'[model[m].layers] = Layers(m)
          /\ \A l \in held : lists'[l] = lists[l]]_vars

\* C5: for a group with no layers get_receptive_field() returns (1, []) and
\* get_layer_names() returns an empty sequence.
C5_EmptyGroup ==
    /\ (ret.op = "get_receptive_field" /\ Layers(ret.self) = <<>>) =>
            (ret.status = "ok" /\ ret.value = <<1, <<>>>>)
    /\ (ret.op = "get_layer_names" /\ Layers(ret.self) = <<>>) =>
            (ret.status = "ok" /\ ret.value = <<>>)

\* A group made by MockModel() and never added to has just been asked for its
\* receptive field.
C5_Witness ==
    /\ ret.op = "get_receptive_field"
    /\ held = {}
    /\ lists = << <<>> >>
    /\ ret.value = <<1, <<>>>>

\* C6: every element of every group's layers is a leaf layer descriptor; a
\* group is never stored as an element.
C6_LeavesOnly ==
    \A m \in ModelIds : \A i \in 1..Len(Layers(m)) :
        Layers(m)[i].kind = "layer" /\ Layers(m)[i].id \in LayerIds

\* A non-empty group has just been added to another group.
C6_Witness ==
    /\ ret.op = "add"
    /\ ret.arg.kind = "model"
    /\ ret.arg.id # ret.self
    /\ Layers(ret.arg.id) # <<>>
    /\ Len(Layers(ret.self)) >= Len(Layers(ret.arg.id))

\* C7: get_receptive_field leaves the heap (every list, descriptor and
\* group) unchanged, returns the same pair whether verbose or not, and
\* returns an equal result when called again on the unmutated group.
C7_ReadOnly ==
    [][ret'.op = "get_receptive_field" =>
          /\ lists' = lists /\ layer' = layer /\ model' = model
          /\ ret'.status = get_receptive_field(Layers(ret'.self), ~ret'.arg[1]).status
          /\ ret'.value = get_receptive_field(Layers(ret'.self), ~ret'.arg[1]).value
          /\ (ret.op = "get_receptive_field" /\ ret.self = ret'.self) =>
                ret'.value = ret.value]_vars

\* A verbose call on a non-empty group has printed its lines.
C7_Witness ==
    /\ ret.op = "get_receptive_field"
    /\ ret.arg = <<TRUE>>
    /\ Layers(ret.self) # <<>>
    /\ Len(out) = Len(Layers(ret.self)) + 1

\* C9: G.add(B) sets G.layers to its pre-call layers followed by B's pre-call
\* flattened sequence; a different group B is left unchanged; B = G doubles G.
C9_AddAppends ==
    [][ret'.op = "add" =>
          /\ lists'[model[ret'.self].layers] = Layers(ret'.self) \o BlockList(ret'.arg)
          /\ (ret'.arg.kind = "model" /\ ret'.arg.id # ret'.self) =>
                lists'[model[ret'.arg.id].layers] = Layers(ret'.arg.id)
          /\ ret'.arg = ModelRef(ret'.self) =>
                Len(lists'[model[ret'.self].layers]) = 2 * Len(Layers(ret'.self))]_vars

(***************************************************************************)
(* Stack specifications: a group that holds a stack of layers the caller   *)
(* constructed with MockLayer(k, s, d, name) and added in order; the       *)
(* caller then only queries it. The scenario records the parameters the    *)
(* caller passed.                                                          *)
(***************************************************************************)
KernelSizes == {1, 2, 3}
Strides == {1, 2}
Dilations == {1, 2}
AnyValues == {0 - 1, 0, 1, 2}
AnyDilations == {0 - 1, 0, 2}

StackName == <<"L">>

\* The heap after: g = MockModel(); for p in params: g.add(MockLayer(*p, name)).
StackBuilt(params) ==
    /\ layer = [i \in 1..Len(params) |->
                    MockLayer(params[i][1], params[i][2], params[i][3], StackName)]
    /\ lists = << [i \in 1..Len(params) |-> LayerRef(i)] >>
    /\ model = << [layers |-> 1] >>
    /\ held = {}
    /\ ret = NoCall
    /\ out = <<>>
    /\ script = [mode |-> "stack", params |-> params]

InitRF ==
    \E n \in 0..MaxDepth :
        \E params \in [1..n -> KernelSizes \X Strides \X Dilations] : StackBuilt(params)

InitAny ==
    \E n \in 0..MaxAnyDepth :
        \E params \in [1..n -> AnyValues \X AnyValues \X AnyDilations] : StackBuilt(params)

QueryGetReceptiveField ==
    /\ \E m \in ModelIds : \E verbose \in BOOLEAN : GetReceptiveField(m, verbose)
    /\ UNCHANGED script

QueryGetLayerNames == (\E m \in ModelIds : GetLayerNames(m)) /\ UNCHANGED script

QuerySummary == (\E m \in ModelIds : Summary(m)) /\ UNCHANGED script

QueryGetAsList == (\E m \in ModelIds : CallGetAsList(m)) /\ UNCHANGED script

NextQuery ==
    \/ QueryGetReceptiveField
    \/ QueryGetLayerNames
    \/ QuerySummary
    \/ QueryGetAsList

SpecRF == InitRF /\ [][NextQuery]_vars

SpecAny == InitAny /\ [][NextQuery]_vars

\* The parameters the caller passed for layer i of the stack.
K(i) == script.params[i][1]
S(i) == script.params[i][2]
D(i) == script.params[i][3]

\* s_1 * ... * s_i
RECURSIVE StrideProduct(_)
StrideProduct(i) == IF i = 0 THEN 1 ELSE StrideProduct(i - 1) * S(i)

\* 1 + sum over j <= i of (k_j - 1) * d_j * (s_1 * ... * s_(j-1))
RECURSIVE ClosedForm(_)
ClosedForm(i) ==
    IF i = 0 THEN 1
    ELSE ClosedForm(i - 1) + (K(i) - 1) * D(i) * StrideProduct(i - 1)

\* The accumulated stride get_receptive_field holds after the first i layers.
StrideAfter(i) == get_receptive_field(SubSeq(Layers(1), 1, i), FALSE).stride

\* Entry i of all_receptive_fields, entry 0 being the starting value 1.
Entry(all, i) == IF i = 0 THEN 1 ELSE all[i]

\* C1: get_receptive_field() returns (rf, all) with one entry per layer,
\* all[i] = 1 + sum_{j<=i} (k_j - 1) * d_j * prod_{m<j} s_m and rf = all[n];
\* it is the left-to-right fold of get_output_receptive_field from (1, 1), the
\* accumulated stride after layer i being s_1 * ... * s_i.
C1_FoldClosedForm ==
    ret.op = "get_receptive_field" =>
        LET n == Len(script.params)
            rf == ret.value[1]
            all == ret.value[2]
        IN  /\ ret.status = "ok"
            /\ Len(all) = n
            /\ \A i \in 1..n : all[i] = ClosedForm(i)
            /\ rf = Entry(all, n)
            /\ \A i \in 0..n : StrideAfter(i) = StrideProduct(i)
            /\ \A i \in 1..n :
                    <<all[i], StrideAfter(i)>> =
                        get_output_receptive_field(layer[i], Entry(all, i - 1), StrideAfter(i - 1))

\* A stack of three layers whose first two strides are not 1 has been folded.
C1_Witness ==
    /\ ret.op = "get_receptive_field"
    /\ Len(script.params) = 3
    /\ S(1) = 2 /\ S(2) = 2 /\ K(3) = 3 /\ D(3) = 2
    /\ ret.value[1] = ClosedForm(3)

\* C10: with every kernel_size, stride and dilation_rate >= 1, the sequence
\* all_receptive_fields is non-decreasing with every entry >= 1, the
\* accumulated stride stays >= 1, and an entry equals its predecessor exactly
\* when that layer has kernel_size 1.
C10_Monotone ==
    (/\ ret.op = "get_receptive_field"
     /\ \A i \in LayerIds :
            layer[i].kernel_size >= 1 /\ layer[i].stride >= 1 /\ layer[i].dilation_rate >= 1)
    => LET all == ret.value[2]
       IN  /\ \A i \in 1..Len(all) : all[i] >= 1 /\ all[i] >= Entry(all, i - 1)
           /\ \A i \in 0..Len(all) : StrideAfter(i) >= 1
           /\ \A i \in 1..Len(all) :
                    (all[i] = Entry(all, i - 1)) <=> (layer[i].kernel_size = 1)

\* A stack with a kernel_size 1 layer between two wider ones has been folded.
C10_Witness ==
    /\ ret.op = "get_receptive_field"
    /\ Len(script.params) = 3
    /\ K(1) = 3 /\ K(2) = 1 /\ K(3) = 2
    /\ ret.value[2][1] = ret.value[2][2]
    /\ ret.value[2][3] > ret.value[2][2]

\* C8: no operation has an error outcome: with kernel_size, stride or
\* dilation_rate zero or negative every call completes normally and
\* get_receptive_field returns what the fold formula gives; after a stride of
\* 0 every later layer contributes 0, and a kernel_size of 0 subtracts
\* dilation_rate * accumulated stride.
C8_NoErrorOutcome ==
    /\ ret.status = "ok"
    /\ ret.op = "get_receptive_field" =>
        LET n == Len(script.params)
            all == ret.value[2]
        IN  /\ Len(all) = n
            /\ ret.value[1] = ClosedForm(n)
            /\ \A i \in 1..n :
                /\ layer[i] = MockLayer(K(i), S(i), D(i), StackName)
                /\ all[i] = ClosedForm(i)
                /\ (\E j \in 1..(i - 1) : S(j) = 0) => all[i] = Entry(all, i - 1)
                /\ K(i) = 0 => all[i] = Entry(all, i - 1) - D(i) * StrideProduct(i - 1)

\* A stack with a stride 0 layer followed by a kernel_size 0 layer of negative
\* dilation has been folded without error.
C8_Witness ==
    /\ ret.op = "get_receptive_field"
    /\ ret.status = "ok"
    /\ Len(script.params) = 2
    /\ K(1) = 0 - 1 /\ S(1) = 0 /\ K(2) = 0 /\ D(2) = 0 - 1
    /\ ret.value[2][2] = ret.value[2][1]

(***************************************************************************)
(* Constructor specification: the caller constructs descriptors with the   *)
(* three constructors, any argument of any sign, and calls their           *)
(* get_output_receptive_field directly.                                    *)
(***************************************************************************)
OptionalValues == {Omitted} \cup {Given(v) : v \in AnyValues}
InputFields == {1, 3}
InputStrides == {1, 2}

CtorMockLayer ==
    /\ Len(layer) < MaxObjs
    /\ \E k \in AnyValues, s \in AnyValues, d \in AnyValues :
            NewMockLayer(k, s, d, <<>>)
    /\ UNCHANGED script

CtorMockConv ==
    /\ Len(layer) < MaxObjs
    /\ \E k \in AnyValues, s \in OptionalValues, d \in OptionalValues, name \in Names :
            NewMockConv(k, s, d, name)
    /\ UNCHANGED script

CtorMockPool ==
    /\ Len(layer) < MaxObjs
    /\ \E p \in AnyValues, s \in OptionalValues, name \in Names : NewMockPool(p, s, name)
    /\ UNCHANGED script

CtorPropagate ==
    /\ \E l \in LayerIds, rf \in InputFields, acc \in InputStrides : Propagate(l, rf, acc)
    /\ UNCHANGED script

NextLayer ==
    \/ CtorMockLayer
    \/ CtorMockConv
    \/ CtorMockPool
    \/ CtorPropagate

SpecLayer == Init /\ [][NextLayer]_vars

\* C4: MockPool(p) has kernel_size p, stride p and dilation_rate 1 and maps
\* every input pair as MockLayer(p, p, 1) does; MockPool(p, s) has stride s and
\* still dilation_rate 1.
C4_PoolPreset ==
    ret.op = "MockPool" =>
        LET p == ret.arg[1]
            stride == ret.arg[2]
            name == ret.arg[3]
            pool == layer[ret.self]
        IN  /\ pool.kernel_size = p
            /\ pool.dilation_rate = 1
            /\ pool.name = name
            /\ stride = Omitted =>
                /\ pool.stride = p
                /\ \A rf \in InputFields \cup AnyValues : \A acc \in InputStrides \cup AnyValues :
                        get_output_receptive_field(pool, rf, acc) =
                            get_output_receptive_field(MockLayer(p, p, 1, name), rf, acc)
            /\ stride # Omitted =>
                /\ pool.stride = stride[1]
                /\ \A rf \in InputFields \cup AnyValues : \A acc \in InputStrides \cup AnyValues :
                        get_output_receptive_field(pool, rf, acc) =
                            get_output_receptive_field(MockLayer(p, stride[1], 1, name), rf, acc)

\* MockPool(2) has just been constructed, with no stride given.
C4_Witness ==
    /\ ret.op = "MockPool"
    /\ ret.arg[1] = 2
    /\ ret.arg[2] = Omitted
    /\ layer[ret.self].stride = 2

(***************************************************************************)
(* Partition specification: the caller holds layers 1..n and a partition   *)
(* of that sequence into consecutive parts. It adds the layers one at a    *)
(* time to group 1, and the parts in order to group 2: a part is a single  *)
(* layer, a sub-group filled by add, or a sub-group made from a list.      *)
(***************************************************************************)
AssocParams == {<<3, 1, 1>>, <<2, 2, 1>>}

PartKinds(n) ==
    {[size |-> 1, how |-> "layer"]}
        \cup {[size |-> z, how |-> h] : z \in 1..n, h \in {"adds", "list"}}

RECURSIVE SumSizes(_)
SumSizes(parts) == IF parts = <<>> THEN 0 ELSE Head(parts).size + SumSizes(Tail(parts))

Partitions(n) ==
    UNION {{parts \in [1..c -> PartKinds(n)] : SumSizes(parts) = n} : c \in 1..n}

InitAssoc ==
    \E n \in 1..MaxSeq :
        \E params \in [1..n -> AssocParams] :
            \E parts \in Partitions(n) :
                /\ layer = [i \in 1..n |->
                                MockConv(params[i][1], Given(params[i][2]), Omitted, <<>>)]
                /\ lists = << <<>>, <<>> >>
                /\ model = << [layers |-> 1], [layers |-> 2] >>
                /\ held = {}
                /\ ret = NoCall
                /\ out = <<>>
                /\ script = [mode |-> "assoc", parts |-> parts, next1 |-> 1, part |-> 1,
                             done |-> 0, lst |-> 0, sub |-> 0, filled |-> 0]

\* The part the caller is working on.
Cur == script.parts[script.part]
HasPart == script.part <= Len(script.parts)
AssocDone == script.next1 > Len(layer) /\ ~HasPart

\* group1.add(next layer)
AssocAddOne ==
    /\ script.next1 <= Len(layer)
    /\ Add(1, LayerRef(script.next1))
    /\ script' = [script EXCEPT !.next1 = @ + 1]

\* group2.add(layer): the part is a single layer.
AssocAddLayerPart ==
    /\ HasPart /\ Cur.how = "layer"
    /\ Add(2, LayerRef(script.done + 1))
    /\ script' = [script EXCEPT !.part = @ + 1, !.done = @ + 1]

\* sub = MockModel()
AssocNewSub ==
    /\ HasPart /\ Cur.how = "adds" /\ script.sub = 0
    /\ NewMockModelEmpty
    /\ script' = [script EXCEPT !.sub = Len(model) + 1]

\* sub.add(next layer of the part)
AssocFillSub ==
    /\ HasPart /\ Cur.how = "adds" /\ script.sub # 0 /\ script.filled < Cur.size
    /\ Add(script.sub, LayerRef(script.done + script.filled + 1))
    /\ script' = [script EXCEPT !.filled = @ + 1]

\* the caller writes the part as a list
AssocListSub ==
    /\ HasPart /\ Cur.how = "list" /\ script.lst = 0
    /\ CallerList([i \in 1..Cur.size |-> script.done + i])
    /\ script' = [script EXCEPT !.lst = Len(lists) + 1]

\* sub = MockModel(that list)
AssocNewSubFrom ==
    /\ HasPart /\ Cur.how = "list" /\ script.lst # 0 /\ script.sub = 0
    /\ NewMockModelFrom(script.lst)
    /\ script' = [script EXCEPT !.sub = Len(model) + 1, !.filled = Cur.size]

\* group2.add(sub): the part is a finished sub-group.
AssocAddGroupPart ==
    /\ HasPart /\ Cur.how # "layer" /\ script.sub # 0 /\ script.filled = Cur.size
    /\ Add(2, ModelRef(script.sub))
    /\ script' = [script EXCEPT !.part = @ + 1, !.done = @ + Cur.size,
                                !.lst = 0, !.sub = 0, !.filled = 0]

\* Both groups are built: the caller asks either for its receptive field.
AssocGetReceptiveField ==
    /\ AssocDone
    /\ \E m \in {1, 2} : GetReceptiveField(m, FALSE)
    /\ UNCHANGED script

NextAssoc ==
    \/ AssocAddOne
    \/ AssocAddLayerPart
    \/ AssocNewSub
    \/ AssocFillSub
    \/ AssocListSub
    \/ AssocNewSubFrom
    \/ AssocAddGroupPart
    \/ AssocGetReceptiveField

SpecAssoc == InitAssoc /\ [][NextAssoc]_vars

\* The first c layers of the caller's sequence, in order.
Prefix(c) == [i \in 1..c |-> LayerRef(i)]

\* C2: adding the parts of any partition in order to an empty group yields
\* the same flattened layers sequence as adding the layers one at a time, and
\* the same get_receptive_field() result.
C2_AddAssociative ==
    /\ script.mode = "assoc" => Layers(1) = Prefix(script.next1 - 1)
    /\ script.mode = "assoc" => Layers(2) = Prefix(script.done)
    /\ (script.mode = "assoc" /\ AssocDone) =>
            /\ Layers(2) = Layers(1)
            /\ ret.op = "get_receptive_field" =>
                /\ ret.value = get_receptive_field(Layers(1), FALSE).value
                /\ ret.value = get_receptive_field(Layers(2), FALSE).value

\* Both groups are built, group 2 from a sub-group of two layers followed by
\* a single layer, and group 2 has been asked for its receptive field.
C2_Witness ==
    /\ script.mode = "assoc"
    /\ AssocDone
    /\ Len(script.parts) = 2
    /\ script.parts[1].size = 2 /\ script.parts[2].how = "layer"
    /\ ret.op = "get_receptive_field" /\ ret.self = 2
    /\ Len(Layers(2)) = 3

====
